---- MODULE Spec2Model ----
(***************************************************************************)
(* Trie (prefix tree) engine and step generator of the LeetCode 208        *)
(* visualizer (algorithm/trie.ts), with the operation records of types.ts. *)
(*                                                                         *)
(* The live trie is an arena: nodes[k] is the TrieNode with handle k, the  *)
(* root has handle 1, NULL is the null reference.  A node's children Map   *)
(* is the sequence of its entries in insertion order (the order in which   *)
(* Map.forEach visits them).  Strings are sequences of characters.         *)
(***************************************************************************)
EXTENDS Integers, Sequences, FiniteSets, TLC

\* ---------------------------------------------------------------- bounds
MaxLen == 2
MaxOps == 2

\* two of the lower-case letters: enough for sibling nodes and shared prefixes
Alphabet == {"a", "b"}
\* operands accepted by isValidWord: non-empty, lower-case letters only
Words == UNION {[1..n -> Alphabet] : n \in 1..MaxLen}

VARIABLES nodeIdCounter, nodes, operations, steps, stepIndex, entry,
          playbackState, playIntervalRef

\* entry records how the current generation run was entered: "first" (the
\* first run of the module), "reset" (the caller reset the identifier counter
\* before the call) or "unreset" (the counter still held the previous tree's value)
\* playbackState is App's PlaybackState record, playIntervalRef the handle of
\* the auto-play interval: NULL, or the interval in milliseconds of the timer
\* that is armed.
vars == <<nodeIdCounter, nodes, operations, steps, stepIndex, entry,
          playbackState, playIntervalRef>>

playVars == <<playbackState, playIntervalRef>>

NULL == 0
root == 1

\* ------------------------------------------------------------ PlaybackState
\* Speeds are kept in hundredths (1x is 100) so that the options 0.5 .. 2 are
\* integers.
SpeedUnit == 100
SPEED_OPTIONS == {50, 75, 100, 125, 150, 200}

\* useState<PlaybackState>(...) of App
InitialPlaybackState ==
  [isPlaying |-> FALSE, currentStep |-> 0, totalSteps |-> 0, speed |-> SpeedUnit]

\* the playback state of an App whose controls were not touched
PlaybackAtMount == playbackState = InitialPlaybackState /\ playIntervalRef = NULL

\* ------------------------------------------------------- Map<string, TrieNode>
\* no key is ever found
mapHasNever(m, key) == FALSE

mapHas(m, key) == \E j \in 1..Len(m) : m[j].key = key

mapGet(m, key) == m[CHOOSE j \in 1..Len(m) : m[j].key = key].value

mapSetOverwrites(m, key, value) == <<[key |-> key, value |-> value]>>

mapSet(m, key, value) ==
  IF mapHas(m, key)
  THEN [j \in 1..Len(m) |-> IF m[j].key = key THEN [key |-> key, value |-> value] ELSE m[j]]
  ELSE Append(m, [key |-> key, value |-> value])

\* ------------------------------------------------------------ identifiers
generateNodeId(counter) == <<"node-", counter>>

resetNodeIdCounter == 0

\* A heap h is [nodes, nodeIdCounter]; createTrieNode returns the heap with the
\* new node allocated at handle Len(h.nodes) + 1 and the counter incremented.
\* the counter is not advanced after an identifier was handed out
createTrieNodeNoIncrement(h, char, depth, parent) ==
  [nodes |-> Append(h.nodes, [id |-> generateNodeId(h.nodeIdCounter),
                              char |-> char,
                              children |-> <<>>,
                              isEnd |-> FALSE,
                              depth |-> depth,
                              parent |-> parent]),
   nodeIdCounter |-> h.nodeIdCounter]

createTrieNode(h, char, depth, parent) ==
  [nodes |-> Append(h.nodes, [id |-> generateNodeId(h.nodeIdCounter),
                              char |-> char,
                              children |-> <<>>,
                              isEnd |-> FALSE,
                              depth |-> depth,
                              parent |-> parent]),
   nodeIdCounter |-> h.nodeIdCounter + 1]

TrieConstructor ==
  createTrieNode([nodes |-> <<>>, nodeIdCounter |-> resetNodeIdCounter], "", 0, NULL)

\* ------------------------------------------------------------ Trie engine
RECURSIVE insertLoopNoHasCheck(_, _, _, _)
insertLoopNoHasCheck(h, node, word, i) ==
  IF i > Len(word)
  THEN [h EXCEPT !.nodes[node].isEnd = TRUE]
  ELSE LET char == word[i]
           c == createTrieNode(h, char, h.nodes[node].depth + 1, node)
           h1 == [c EXCEPT !.nodes[node].children =
                     Append(@, [key |-> char, value |-> Len(c.nodes)])]
       IN insertLoopNoHasCheck(h1, Len(c.nodes), word, i + 1)

RECURSIVE insertLoop(_, _, _, _)
insertLoop(h, node, word, i) ==
  IF i > Len(word)
  THEN [h EXCEPT !.nodes[node].isEnd = TRUE]
  ELSE LET char == word[i]
           h1 == IF ~mapHas(h.nodes[node].children, char)
                 THEN LET c == createTrieNode(h, char, h.nodes[node].depth + 1, node)
                      IN [c EXCEPT !.nodes[node].children = mapSet(@, char, Len(c.nodes))]
                 ELSE h
       IN insertLoop(h1, mapGet(h1.nodes[node].children, char), word, i + 1)

insert(h, word) == insertLoop(h, root, word, 1)

RECURSIVE searchPrefixLoopStopsEarly(_, _, _, _)
searchPrefixLoopStopsEarly(ns, node, prefix, i) ==
  IF i > Len(prefix)
  THEN node
  ELSE IF ~mapHas(ns[node].children, prefix[i])
       THEN (IF i > 1 THEN node ELSE NULL)
       ELSE searchPrefixLoopStopsEarly(ns, mapGet(ns[node].children, prefix[i]), prefix, i + 1)

RECURSIVE searchPrefixLoop(_, _, _, _)
searchPrefixLoop(ns, node, prefix, i) ==
  IF i > Len(prefix)
  THEN node
  ELSE IF ~mapHas(ns[node].children, prefix[i])
       THEN NULL
       ELSE searchPrefixLoop(ns, mapGet(ns[node].children, prefix[i]), prefix, i + 1)

searchPrefix(ns, prefix) == searchPrefixLoop(ns, root, prefix, 1)

searchIgnoresIsEnd(ns, word) ==
  LET node == searchPrefix(ns, word) IN node # NULL

search(ns, word) ==
  LET node == searchPrefix(ns, word) IN node # NULL /\ ns[node].isEnd

startsWithRequiresChildren(ns, prefix) ==
  LET node == searchPrefix(ns, prefix) IN node # NULL /\ Len(ns[node].children) > 0

startsWith(ns, prefix) == searchPrefix(ns, prefix) # NULL

\* ------------------------------------------------------------ snapshots
RECURSIVE convertToVisualKeepsLastChild(_, _, _, _)
convertToVisualKeepsLastChild(ns, node, x, y) ==
  LET m == ns[node].children
      childCount == Len(m)
      children == IF childCount = 0
                  THEN <<>>
                  ELSE <<convertToVisualKeepsLastChild(ns, m[childCount].value,
                                                       x + 40 * (childCount - 1), y + 80)>>
  IN [id |-> ns[node].id,
      char |-> IF ns[node].char = "" THEN "root" ELSE ns[node].char,
      isEnd |-> ns[node].isEnd,
      x |-> x,
      y |-> y,
      depth |-> ns[node].depth,
      children |-> children,
      highlighted |-> FALSE]

\* the children are listed last-created first
RECURSIVE convertToVisualReversesChildren(_, _, _, _)
convertToVisualReversesChildren(ns, node, x, y) ==
  LET m == ns[node].children
      childCount == Len(m)
      children == [j \in 1..childCount |->
                     convertToVisualReversesChildren(
                       ns, m[childCount + 1 - j].value,
                       x + 80 * (j - 1) - 40 * (childCount - 1), y + 80)]
  IN [id |-> ns[node].id,
      char |-> IF ns[node].char = "" THEN "root" ELSE ns[node].char,
      isEnd |-> ns[node].isEnd,
      x |-> x,
      y |-> y,
      depth |-> ns[node].depth,
      children |-> children,
      highlighted |-> FALSE]

RECURSIVE convertToVisual(_, _, _, _)
convertToVisual(ns, node, x, y) ==
  LET m == ns[node].children
      childCount == Len(m)
      \* (childIndex - (childCount - 1) / 2) * 80 with childIndex = j - 1
      children == [j \in 1..childCount |->
                     convertToVisual(ns, m[j].value,
                                     x + 80 * (j - 1) - 40 * (childCount - 1), y + 80)]
  IN [id |-> ns[node].id,
      char |-> IF ns[node].char = "" THEN "root" ELSE ns[node].char,
      isEnd |-> ns[node].isEnd,
      x |-> x,
      y |-> y,
      depth |-> ns[node].depth,
      children |-> children,
      highlighted |-> FALSE]

toVisualNode(ns) == convertToVisual(ns, root, 0, 0)

\* ------------------------------------------------------------ step generator
\* An AlgorithmStep keeps the fields the code sets; codeLineMap (constant line
\* tables) and the annotation texts are left out, description is its template
\* with its interpolated operand.  A field the code does not set is absent.
Annotation(nodeId, position, type) == [nodeId |-> nodeId, position |-> position, type |-> type]

\* variables of a query step: generateSearchSteps names the operand "word",
\* generateStartsWithSteps names it "prefix"
OperandVar(operand, w) == IF operand = "word" THEN [word |-> w] ELSE [prefix |-> w]

\* Loop state of the generate*Steps functions:
\*   h (trie heap), node, pathNodes, steps, stepIndex, returned (early return taken)
LoopStart(h, startIndex, beginStep) ==
  [h |-> h, node |-> root, pathNodes |-> <<h.nodes[root].id>>,
   steps |-> <<beginStep>>, stepIndex |-> startIndex + 1, returned |-> FALSE]

BeginInsertStep(h, word, startIndex) ==
  [stepIndex |-> startIndex,
   description |-> [text |-> "begin insert", word |-> word],
   highlightedNodes |-> <<h.nodes[root].id>>,
   highlightedEdges |-> <<>>,
   currentCharIndex |-> -1,
   variables |-> [word |-> word, node |-> "root"],
   trieSnapshot |-> toVisualNode(h.nodes),
   annotations |-> <<Annotation(h.nodes[root].id, "top", "action")>>]

\* the snapshot is taken from the tree as it was before the node was created
CreateNodeStepSnapshotBefore(st, h1, word, char, i, newId) ==
  [stepIndex |-> st.stepIndex,
   description |-> [text |-> "absent, create new node", char |-> char],
   highlightedNodes |-> Append(st.pathNodes, newId),
   highlightedEdges |-> <<>>,
   currentChar |-> char,
   currentCharIndex |-> i - 1,
   variables |-> [word |-> word, char |-> char, index |-> i - 1, action |-> "create"],
   trieSnapshot |-> toVisualNode(st.h.nodes),
   annotations |-> <<Annotation(newId, "top", "action")>>,
   action |-> "createNode"]

\* h1 is the heap after the new node newId was created and linked
\* the step that creates a node is tagged as a move
CreateNodeStepTaggedMove(st, h1, word, char, i, newId) ==
  [stepIndex |-> st.stepIndex,
   description |-> [text |-> "absent, create new node", char |-> char],
   highlightedNodes |-> Append(st.pathNodes, newId),
   highlightedEdges |-> <<>>,
   currentChar |-> char,
   currentCharIndex |-> i - 1,
   variables |-> [word |-> word, char |-> char, index |-> i - 1, action |-> "create"],
   trieSnapshot |-> toVisualNode(h1.nodes),
   annotations |-> <<Annotation(newId, "top", "action")>>,
   action |-> "moveToChild"]

CreateNodeStep(st, h1, word, char, i, newId) ==
  [stepIndex |-> st.stepIndex,
   description |-> [text |-> "absent, create new node", char |-> char],
   highlightedNodes |-> Append(st.pathNodes, newId),
   highlightedEdges |-> <<>>,
   currentChar |-> char,
   currentCharIndex |-> i - 1,
   variables |-> [word |-> word, char |-> char, index |-> i - 1, action |-> "create"],
   trieSnapshot |-> toVisualNode(h1.nodes),
   annotations |-> <<Annotation(newId, "top", "action")>>,
   action |-> "createNode"]

\* the step highlights the path without the child just entered
MoveToChildStepHighlightsOldPath(st, word, char, i, childId) ==
  [stepIndex |-> st.stepIndex,
   description |-> [text |-> "exists, move to child", char |-> char],
   highlightedNodes |-> st.pathNodes,
   highlightedEdges |-> <<>>,
   currentChar |-> char,
   currentCharIndex |-> i - 1,
   variables |-> [word |-> word, char |-> char, index |-> i - 1, action |-> "move"],
   trieSnapshot |-> toVisualNode(st.h.nodes),
   annotations |-> <<Annotation(childId, "top", "action")>>,
   action |-> "moveToChild"]

MoveToChildStep(st, word, char, i, childId) ==
  [stepIndex |-> st.stepIndex,
   description |-> [text |-> "exists, move to child", char |-> char],
   highlightedNodes |-> Append(st.pathNodes, childId),
   highlightedEdges |-> <<>>,
   currentChar |-> char,
   currentCharIndex |-> i - 1,
   variables |-> [word |-> word, char |-> char, index |-> i - 1, action |-> "move"],
   trieSnapshot |-> toVisualNode(st.h.nodes),
   annotations |-> <<Annotation(childId, "top", "action")>>,
   action |-> "moveToChild"]

\* h1 is the heap after isEnd was set on st.node
MarkEndStep(st, h1, word) ==
  [stepIndex |-> st.stepIndex,
   description |-> [text |-> "mark end of word", word |-> word],
   highlightedNodes |-> st.pathNodes,
   highlightedEdges |-> <<>>,
   variables |-> [word |-> word, isEnd |-> TRUE],
   trieSnapshot |-> toVisualNode(h1.nodes),
   annotations |-> <<Annotation(h1.nodes[st.node].id, "top", "result")>>,
   action |-> "markEnd"]

RECURSIVE insertStepsLoopSilentMove(_, _, _)
insertStepsLoopSilentMove(st, word, i) ==
  IF i > Len(word)
  THEN st
  ELSE LET char == word[i]
           node == st.node
           hasChild == mapHas(st.h.nodes[node].children, char)
       IN IF ~hasChild
          THEN LET c == createTrieNode(st.h, char, st.h.nodes[node].depth + 1, node)
                   newNode == Len(c.nodes)
                   h1 == [c EXCEPT !.nodes[node].children = mapSet(@, char, newNode)]
                   newId == h1.nodes[newNode].id
               IN insertStepsLoopSilentMove(
                    [st EXCEPT !.h = h1,
                               !.node = newNode,
                               !.pathNodes = Append(@, newId),
                               !.steps = Append(@, CreateNodeStep(st, h1, word, char, i, newId)),
                               !.stepIndex = @ + 1], word, i + 1)
          ELSE LET childNode == mapGet(st.h.nodes[node].children, char)
                   childId == st.h.nodes[childNode].id
               IN insertStepsLoopSilentMove(
                    [st EXCEPT !.node = childNode,
                               !.pathNodes = Append(@, childId)], word, i + 1)

RECURSIVE insertStepsLoop(_, _, _)
insertStepsLoop(st, word, i) ==
  IF i > Len(word)
  THEN st
  ELSE LET char == word[i]
           node == st.node
           hasChild == mapHas(st.h.nodes[node].children, char)
       IN IF ~hasChild
          THEN LET c == createTrieNode(st.h, char, st.h.nodes[node].depth + 1, node)
                   newNode == Len(c.nodes)
                   h1 == [c EXCEPT !.nodes[node].children = mapSet(@, char, newNode)]
                   newId == h1.nodes[newNode].id
               IN insertStepsLoop(
                    [st EXCEPT !.h = h1,
                               !.node = newNode,
                               !.pathNodes = Append(@, newId),
                               !.steps = Append(@, CreateNodeStep(st, h1, word, char, i, newId)),
                               !.stepIndex = @ + 1], word, i + 1)
          ELSE LET childNode == mapGet(st.h.nodes[node].children, char)
                   childId == st.h.nodes[childNode].id
               IN insertStepsLoop(
                    [st EXCEPT !.node = childNode,
                               !.pathNodes = Append(@, childId),
                               !.steps = Append(@, MoveToChildStep(st, word, char, i, childId)),
                               !.stepIndex = @ + 1], word, i + 1)

\* every step of the insert refers to the live tree instead of a copy of it
generateInsertStepsAliasesLiveTree(h, word, startIndex) ==
  LET st == insertStepsLoop(LoopStart(h, startIndex, BeginInsertStep(h, word, startIndex)),
                            word, 1)
      h1 == [st.h EXCEPT !.nodes[st.node].isEnd = TRUE]
      all == Append(st.steps, MarkEndStep(st, h1, word))
  IN [h |-> h1,
      steps |-> [k \in 1..Len(all) |-> [all[k] EXCEPT !.trieSnapshot = toVisualNode(h1.nodes)]]]

generateInsertSteps(h, word, startIndex) ==
  LET st == insertStepsLoop(LoopStart(h, startIndex, BeginInsertStep(h, word, startIndex)),
                            word, 1)
      h1 == [st.h EXCEPT !.nodes[st.node].isEnd = TRUE]
  IN [h |-> h1, steps |-> Append(st.steps, MarkEndStep(st, h1, word))]

BeginQueryStep(h, operand, w, startIndex) ==
  [stepIndex |-> startIndex,
   description |-> [text |-> IF operand = "word" THEN "begin search"
                             ELSE "begin prefix search",
                    word |-> w],
   highlightedNodes |-> <<h.nodes[root].id>>,
   highlightedEdges |-> <<>>,
   variables |-> OperandVar(operand, w) @@ [node |-> "root"],
   trieSnapshot |-> toVisualNode(h.nodes),
   annotations |-> <<Annotation(h.nodes[root].id, "top", "action")>>]

NotFoundStep(st, operand, w, char, i) ==
  [stepIndex |-> st.stepIndex,
   description |-> [text |-> IF operand = "word" THEN "absent, search fails"
                             ELSE "absent, prefix does not exist",
                    char |-> char],
   highlightedNodes |-> st.pathNodes,
   highlightedEdges |-> <<>>,
   currentChar |-> char,
   currentCharIndex |-> i - 1,
   variables |-> OperandVar(operand, w) @@ [char |-> char, index |-> i - 1, found |-> FALSE],
   trieSnapshot |-> toVisualNode(st.h.nodes),
   annotations |-> <<Annotation(st.h.nodes[st.node].id, "right", "result")>>,
   action |-> "returnResult"]

ReturnFalseStepSameIndex(st, operand, w) ==
  [stepIndex |-> st.stepIndex,
   description |-> [text |-> IF operand = "word" THEN "return false, word not in trie"
                             ELSE "return false, prefix does not exist",
                    word |-> w],
   highlightedNodes |-> st.pathNodes,
   highlightedEdges |-> <<>>,
   variables |-> OperandVar(operand, w) @@ [result |-> FALSE],
   trieSnapshot |-> toVisualNode(st.h.nodes),
   annotations |-> <<>>,
   action |-> "returnResult"]

\* pushed right after NotFoundStep, hence stepIndex + 1
ReturnFalseStep(st, operand, w) ==
  [stepIndex |-> st.stepIndex + 1,
   description |-> [text |-> IF operand = "word" THEN "return false, word not in trie"
                             ELSE "return false, prefix does not exist",
                    word |-> w],
   highlightedNodes |-> st.pathNodes,
   highlightedEdges |-> <<>>,
   variables |-> OperandVar(operand, w) @@ [result |-> FALSE],
   trieSnapshot |-> toVisualNode(st.h.nodes),
   annotations |-> <<>>,
   action |-> "returnResult"]

FoundStep(st, operand, w, char, i, childId) ==
  [stepIndex |-> st.stepIndex,
   description |-> [text |-> "found, move to child", char |-> char],
   highlightedNodes |-> Append(st.pathNodes, childId),
   highlightedEdges |-> <<>>,
   currentChar |-> char,
   currentCharIndex |-> i - 1,
   variables |-> OperandVar(operand, w) @@ [char |-> char, index |-> i - 1],
   trieSnapshot |-> toVisualNode(st.h.nodes),
   annotations |-> <<Annotation(childId, "top", "action")>>,
   action |-> "moveToChild"]

\* the final step of a search always shows true
CheckEndStepAlwaysTrue(st, word) ==
  LET isEnd == st.h.nodes[st.node].isEnd
  IN [stepIndex |-> st.stepIndex,
      description |-> [text |-> "is end of word, return true"],
      highlightedNodes |-> st.pathNodes,
      highlightedEdges |-> <<>>,
      variables |-> [word |-> word, isEnd |-> isEnd, result |-> TRUE],
      trieSnapshot |-> toVisualNode(st.h.nodes),
      annotations |-> <<Annotation(st.h.nodes[st.node].id, "top", "result")>>,
      action |-> "checkEnd"]

CheckEndStep(st, word) ==
  LET isEnd == st.h.nodes[st.node].isEnd
  IN [stepIndex |-> st.stepIndex,
      description |-> [text |-> IF isEnd THEN "is end of word, return true"
                                ELSE "not end of word, return false"],
      highlightedNodes |-> st.pathNodes,
      highlightedEdges |-> <<>>,
      variables |-> [word |-> word, isEnd |-> isEnd, result |-> isEnd],
      trieSnapshot |-> toVisualNode(st.h.nodes),
      annotations |-> <<Annotation(st.h.nodes[st.node].id, "top", "result")>>,
      action |-> "checkEnd"]

\* the terminal step of a prefix query reports the node's isEnd flag
PrefixExistsStepConsultsIsEnd(st, prefix) ==
  [stepIndex |-> st.stepIndex,
   description |-> [text |-> "prefix exists, return true", word |-> prefix],
   highlightedNodes |-> st.pathNodes,
   highlightedEdges |-> <<>>,
   variables |-> [prefix |-> prefix, result |-> st.h.nodes[st.node].isEnd],
   trieSnapshot |-> toVisualNode(st.h.nodes),
   annotations |-> <<Annotation(st.h.nodes[st.node].id, "top", "result")>>,
   action |-> IF st.h.nodes[st.node].isEnd THEN "returnResult" ELSE "checkEnd"]

PrefixExistsStep(st, prefix) ==
  [stepIndex |-> st.stepIndex,
   description |-> [text |-> "prefix exists, return true", word |-> prefix],
   highlightedNodes |-> st.pathNodes,
   highlightedEdges |-> <<>>,
   variables |-> [prefix |-> prefix, result |-> TRUE],
   trieSnapshot |-> toVisualNode(st.h.nodes),
   annotations |-> <<Annotation(st.h.nodes[st.node].id, "top", "result")>>,
   action |-> "returnResult"]

RECURSIVE searchStepsLoopCreatesMissing(_, _, _)
searchStepsLoopCreatesMissing(st, word, i) ==
  IF i > Len(word)
  THEN st
  ELSE LET char == word[i]
           c == createTrieNode(st.h, char, st.h.nodes[st.node].depth + 1, st.node)
           h1 == IF ~mapHas(st.h.nodes[st.node].children, char)
                 THEN [c EXCEPT !.nodes[st.node].children = mapSet(@, char, Len(c.nodes))]
                 ELSE st.h
           childNode == mapGet(h1.nodes[st.node].children, char)
           childId == h1.nodes[childNode].id
           st1 == [st EXCEPT !.h = h1]
       IN searchStepsLoopCreatesMissing(
            [st1 EXCEPT !.node = childNode,
                        !.pathNodes = Append(@, childId),
                        !.steps = Append(@, FoundStep(st1, "word", word, char, i, childId)),
                        !.stepIndex = @ + 1], word, i + 1)

RECURSIVE searchStepsLoopSingleMissStep(_, _, _)
searchStepsLoopSingleMissStep(st, word, i) ==
  IF i > Len(word)
  THEN st
  ELSE LET char == word[i]
       IN IF ~mapHas(st.h.nodes[st.node].children, char)
          THEN [st EXCEPT !.steps = Append(@, [ReturnFalseStep(st, "word", word)
                                                 EXCEPT !.stepIndex = st.stepIndex]),
                          !.stepIndex = @ + 1,
                          !.returned = TRUE]
          ELSE LET childNode == mapGet(st.h.nodes[st.node].children, char)
                   childId == st.h.nodes[childNode].id
               IN searchStepsLoopSingleMissStep(
                    [st EXCEPT !.node = childNode,
                               !.pathNodes = Append(@, childId),
                               !.steps = Append(@, FoundStep(st, "word", word, char, i, childId)),
                               !.stepIndex = @ + 1], word, i + 1)

RECURSIVE searchStepsLoop(_, _, _)
searchStepsLoop(st, word, i) ==
  IF i > Len(word)
  THEN st
  ELSE LET char == word[i]
       IN IF ~mapHas(st.h.nodes[st.node].children, char)
          THEN [st EXCEPT !.steps = @ \o <<NotFoundStep(st, "word", word, char, i),
                                           ReturnFalseStep(st, "word", word)>>,
                          !.stepIndex = @ + 2,
                          !.returned = TRUE]
          ELSE LET childNode == mapGet(st.h.nodes[st.node].children, char)
                   childId == st.h.nodes[childNode].id
               IN searchStepsLoop(
                    [st EXCEPT !.node = childNode,
                               !.pathNodes = Append(@, childId),
                               !.steps = Append(@, FoundStep(st, "word", word, char, i, childId)),
                               !.stepIndex = @ + 1], word, i + 1)

generateSearchSteps(h, word, startIndex) ==
  LET st == searchStepsLoop(LoopStart(h, startIndex,
                                      BeginQueryStep(h, "word", word, startIndex)), word, 1)
  IN [h |-> st.h,
      steps |-> IF st.returned THEN st.steps ELSE Append(st.steps, CheckEndStep(st, word))]

\* the loop does not return after the miss and goes on with the next character
RECURSIVE startsWithStepsLoopNoReturn(_, _, _)
startsWithStepsLoopNoReturn(st, prefix, i) ==
  IF i > Len(prefix)
  THEN st
  ELSE LET char == prefix[i]
       IN IF ~mapHas(st.h.nodes[st.node].children, char)
          THEN startsWithStepsLoopNoReturn(
                 [st EXCEPT !.steps = @ \o <<NotFoundStep(st, "prefix", prefix, char, i),
                                             ReturnFalseStep(st, "prefix", prefix)>>,
                            !.stepIndex = @ + 2,
                            !.returned = TRUE], prefix, i + 1)
          ELSE LET childNode == mapGet(st.h.nodes[st.node].children, char)
                   childId == st.h.nodes[childNode].id
               IN startsWithStepsLoopNoReturn(
                    [st EXCEPT !.node = childNode,
                               !.pathNodes = Append(@, childId),
                               !.steps = Append(@, FoundStep(st, "prefix", prefix, char, i,
                                                             childId)),
                               !.stepIndex = @ + 1], prefix, i + 1)

RECURSIVE startsWithStepsLoop(_, _, _)
startsWithStepsLoop(st, prefix, i) ==
  IF i > Len(prefix)
  THEN st
  ELSE LET char == prefix[i]
       IN IF ~mapHas(st.h.nodes[st.node].children, char)
          THEN [st EXCEPT !.steps = @ \o <<NotFoundStep(st, "prefix", prefix, char, i),
                                           ReturnFalseStep(st, "prefix", prefix)>>,
                          !.stepIndex = @ + 2,
                          !.returned = TRUE]
          ELSE LET childNode == mapGet(st.h.nodes[st.node].children, char)
                   childId == st.h.nodes[childNode].id
               IN startsWithStepsLoop(
                    [st EXCEPT !.node = childNode,
                               !.pathNodes = Append(@, childId),
                               !.steps = Append(@, FoundStep(st, "prefix", prefix, char, i,
                                                             childId)),
                               !.stepIndex = @ + 1], prefix, i + 1)

generateStartsWithStepsNoTerminal(h, prefix, startIndex) ==
  LET st == startsWithStepsLoop(LoopStart(h, startIndex,
                                          BeginQueryStep(h, "prefix", prefix, startIndex)),
                                prefix, 1)
  IN [h |-> st.h, steps |-> st.steps]

generateStartsWithSteps(h, prefix, startIndex) ==
  LET st == startsWithStepsLoop(LoopStart(h, startIndex,
                                          BeginQueryStep(h, "prefix", prefix, startIndex)),
                                prefix, 1)
  IN [h |-> st.h,
      steps |-> IF st.returned THEN st.steps ELSE Append(st.steps, PrefixExistsStep(st, prefix))]

\* ------------------------------------------------------------ generateSteps
\* The state after the prologue of generateSteps: a fresh Trie, the
\* initialization step pushed, no operation of the list processed yet.
\* operations holds the Operation records the loop has processed so far
\* (with the result it wrote on them); the list is an input whose next
\* element is drawn when the loop reaches it.
\* the initialization step highlights nothing
InitialStepNoHighlight(h) ==
  [stepIndex |-> 0,
   description |-> [text |-> "initialize trie, create root"],
   highlightedNodes |-> << >>,
   highlightedEdges |-> <<>>,
   variables |-> << >>,
   trieSnapshot |-> toVisualNode(h.nodes),
   annotations |-> <<Annotation(h.nodes[root].id, "top", "info")>>]

InitialStep(h) ==
  [stepIndex |-> 0,
   description |-> [text |-> "initialize trie, create root"],
   highlightedNodes |-> <<h.nodes[root].id>>,
   highlightedEdges |-> <<>>,
   variables |-> << >>,
   trieSnapshot |-> toVisualNode(h.nodes),
   annotations |-> <<Annotation(h.nodes[root].id, "top", "info")>>]

InitWithoutInitialStep ==
  LET h == TrieConstructor
  IN /\ nodes = h.nodes
     /\ nodeIdCounter = h.nodeIdCounter
     /\ operations = <<>>
     /\ steps = <<>>
     /\ stepIndex = 0
     /\ entry = "first"
     /\ PlaybackAtMount

Init ==
  LET h == TrieConstructor
  IN /\ nodes = h.nodes
     /\ nodeIdCounter = h.nodeIdCounter
     /\ operations = <<>>
     /\ steps = <<InitialStep(h)>>
     /\ stepIndex = 1
     /\ entry = "first"
     /\ PlaybackAtMount

Heap == [nodes |-> nodes, nodeIdCounter |-> nodeIdCounter]

OpInsert(word) ==
  /\ Len(operations) < MaxOps
  /\ LET r == generateInsertSteps(Heap, word, stepIndex)
     IN /\ nodes' = r.h.nodes
        /\ nodeIdCounter' = r.h.nodeIdCounter
        /\ steps' = steps \o r.steps
        /\ stepIndex' = stepIndex + Len(r.steps)
        /\ operations' = Append(operations, [type |-> "insert", word |-> word])
  /\ UNCHANGED <<entry, playbackState, playIntervalRef>>

\* the result is taken from the prefix query instead of the word query
OpSearchResultFromStartsWith(word) ==
  /\ Len(operations) < MaxOps
  /\ LET r == generateSearchSteps(Heap, word, stepIndex)
     IN /\ nodes' = r.h.nodes
        /\ nodeIdCounter' = r.h.nodeIdCounter
        /\ steps' = steps \o r.steps
        /\ stepIndex' = stepIndex + Len(r.steps)
        /\ operations' = Append(operations, [type |-> "search", word |-> word,
                                             result |-> startsWith(r.h.nodes, word)])
  /\ UNCHANGED <<entry, playbackState, playIntervalRef>>

OpSearch(word) ==
  /\ Len(operations) < MaxOps
  /\ LET r == generateSearchSteps(Heap, word, stepIndex)
     IN /\ nodes' = r.h.nodes
        /\ nodeIdCounter' = r.h.nodeIdCounter
        /\ steps' = steps \o r.steps
        /\ stepIndex' = stepIndex + Len(r.steps)
        /\ operations' = Append(operations, [type |-> "search", word |-> word,
                                             result |-> search(r.h.nodes, word)])
  /\ UNCHANGED <<entry, playbackState, playIntervalRef>>

OpStartsWith(word) ==
  /\ Len(operations) < MaxOps
  /\ LET r == generateStartsWithSteps(Heap, word, stepIndex)
     IN /\ nodes' = r.h.nodes
        /\ nodeIdCounter' = r.h.nodeIdCounter
        /\ steps' = steps \o r.steps
        /\ stepIndex' = stepIndex + Len(r.steps)
        /\ operations' = Append(operations, [type |-> "startsWith", word |-> word,
                                             result |-> startsWith(r.h.nodes, word)])
  /\ UNCHANGED <<entry, playbackState, playIntervalRef>>

\* The prologue of generateSteps entered with the module's identifier counter
\* at the value counter: new Trie() resets the counter itself before it creates
\* the root, so the value at entry is not read.
generateStepsPrologueKeepsCounter(counter) ==
  LET h == createTrieNode([nodes |-> <<>>, nodeIdCounter |-> counter], "", 0, NULL)
  IN [h |-> h, steps |-> <<InitialStep(h)>>, stepIndex |-> 1]

generateStepsPrologue(counter) ==
  LET h == TrieConstructor
  IN [h |-> h, steps |-> <<InitialStep(h)>>, stepIndex |-> 1]

\* generateSteps as a function of its operation list ops (records with type and
\* word): the prologue, then the loop body for ops[k], k = 1..Len(ops).  g holds
\* the trie heap, the steps, stepIndex and the operations with their results.
RECURSIVE generateStepsLoop(_, _, _)
generateStepsLoop(g, ops, k) ==
  IF k > Len(ops)
  THEN g
  ELSE LET op == ops[k]
           r == CASE op.type = "insert" -> generateInsertSteps(g.h, op.word, g.stepIndex)
                  [] op.type = "search" -> generateSearchSteps(g.h, op.word, g.stepIndex)
                  [] op.type = "startsWith" ->
                       generateStartsWithSteps(g.h, op.word, g.stepIndex)
           done == CASE op.type = "insert" -> [type |-> op.type, word |-> op.word]
                     [] op.type = "search" ->
                          [type |-> op.type, word |-> op.word,
                           result |-> search(r.h.nodes, op.word)]
                     [] op.type = "startsWith" ->
                          [type |-> op.type, word |-> op.word,
                           result |-> startsWith(r.h.nodes, op.word)]
       IN generateStepsLoop([h |-> r.h,
                             steps |-> g.steps \o r.steps,
                             stepIndex |-> g.stepIndex + Len(r.steps),
                             operations |-> Append(g.operations, done)], ops, k + 1)

generateSteps(ops) ==
  LET g == generateStepsPrologue(resetNodeIdCounter)
  IN generateStepsLoop([h |-> g.h, steps |-> g.steps, stepIndex |-> g.stepIndex,
                        operations |-> <<>>], ops, 1)

\* A new generation run replaces the previous one: fresh steps array, fresh
\* trie, a new operation list whose elements the loop has yet to read.
StartRun(counter) ==
  LET g == generateStepsPrologue(counter)
  IN /\ nodes' = g.h.nodes
     /\ nodeIdCounter' = g.h.nodeIdCounter
     /\ steps' = g.steps
     /\ stepIndex' = g.stepIndex
     /\ operations' = <<>>

\* the new run goes on with the identifier counter of the run before it
RegenerateCarriesCounter ==
  /\ LET g == generateStepsPrologueKeepsCounter(nodeIdCounter)
     IN /\ nodes' = g.h.nodes
        /\ nodeIdCounter' = g.h.nodeIdCounter
        /\ steps' = g.steps
        /\ stepIndex' = g.stepIndex
        /\ operations' = <<>>
  /\ entry' = "reset"
  /\ UNCHANGED playVars

\* App's regeneration effect: resetNodeIdCounter(), then generateSteps(operations)
Regenerate ==
  /\ StartRun(resetNodeIdCounter)
  /\ entry' = "reset"
  /\ UNCHANGED playVars

\* generateSteps called again by a caller that did not reset the counter
GenerateStepsUnreset ==
  /\ StartRun(nodeIdCounter)
  /\ entry' = "unreset"
  /\ UNCHANGED playVars

Next ==
  \/ \E word \in Words :
       \/ OpInsert(word)
       \/ OpSearch(word)
       \/ OpStartsWith(word)
  \/ Regenerate
  \/ GenerateStepsUnreset

Spec == Init /\ [][Next]_vars

\* ------------------------------------------------------------ Trie used directly
\* A client that constructs a Trie and calls its methods; operations is the
\* log of the calls made, each query with the value it returned.
InitTrie ==
  LET h == TrieConstructor
  IN /\ nodes = h.nodes
     /\ nodeIdCounter = h.nodeIdCounter
     /\ operations = <<>>
     /\ steps = <<>>
     /\ stepIndex = 0
     /\ entry = "first"
     /\ PlaybackAtMount

CallInsert(word) ==
  /\ Len(operations) < MaxOps
  /\ LET h == insert(Heap, word)
     IN /\ nodes' = h.nodes
        /\ nodeIdCounter' = h.nodeIdCounter
  /\ operations' = Append(operations, [type |-> "insert", word |-> word])
  /\ UNCHANGED <<steps, stepIndex, entry, playbackState, playIntervalRef>>

CallSearch(word) ==
  /\ Len(operations) < MaxOps
  /\ operations' = Append(operations, [type |-> "search", word |-> word,
                                       result |-> search(nodes, word)])
  /\ UNCHANGED <<nodes, nodeIdCounter, steps, stepIndex, entry, playbackState,
               playIntervalRef>>

CallStartsWith(word) ==
  /\ Len(operations) < MaxOps
  /\ operations' = Append(operations, [type |-> "startsWith", word |-> word,
                                       result |-> startsWith(nodes, word)])
  /\ UNCHANGED <<nodes, nodeIdCounter, steps, stepIndex, entry, playbackState,
               playIntervalRef>>

NextTrie ==
  \E word \in Words :
    \/ CallInsert(word)
    \/ CallSearch(word)
    \/ CallStartsWith(word)

SpecTrie == InitTrie /\ [][NextTrie]_vars

\* ------------------------------------------------------------ App playback
\* App keeps the operation list, the generated steps and playbackState; a
\* handler is taken together with the render and the effects that follow it.
MaxPlayOps == 2
SeekMargin == 1

\* the operations the lists handed over by DataInput are made of
PlayOperations ==
  { [type |-> "insert", word |-> <<"a", "b">>],
    [type |-> "search", word |-> <<"a">>],
    [type |-> "startsWith", word |-> <<"a", "b">>] }

\* DataInput hands over non-empty lists only
PlayLists == UNION {[1..n -> PlayOperations] : n \in 1..MaxPlayOps}

\* window.setInterval(..., 1000 / playbackState.speed)
IntervalMs == 1000
interval(speed) == (IntervalMs * SpeedUnit) \div speed

\* the effects do not clear the interval when their dependencies change
RECURSIVE runEffectsNoCleanup(_, _, _)
runEffectsNoCleanup(prev, next, timer) ==
  LET autoPlayDeps == \/ prev.isPlaying # next.isPlaying
                      \/ prev.speed # next.speed
                      \/ prev.totalSteps # next.totalSteps
      armed == IF autoPlayDeps /\ next.isPlaying /\ next.currentStep < next.totalSteps - 1
               THEN interval(next.speed)
               ELSE timer
      endCheckDeps == \/ prev.currentStep # next.currentStep
                      \/ prev.totalSteps # next.totalSteps
                      \/ prev.isPlaying # next.isPlaying
  IN IF endCheckDeps /\ next.isPlaying /\ next.currentStep >= next.totalSteps - 1
     THEN runEffectsNoCleanup(next, [next EXCEPT !.isPlaying = FALSE], armed)
     ELSE [playbackState |-> next, playIntervalRef |-> armed]

\* The two playback effects of App, run after the render that replaced the
\* rendered state prev by next.  The auto-play effect (dependencies isPlaying,
\* speed, totalSteps) clears the interval and arms a new one when playing
\* before the last step; the end check (dependencies currentStep, totalSteps,
\* isPlaying) turns isPlaying off at the last step, which renders again.
RECURSIVE runEffects(_, _, _)
runEffects(prev, next, timer) ==
  LET autoPlayDeps == \/ prev.isPlaying # next.isPlaying
                      \/ prev.speed # next.speed
                      \/ prev.totalSteps # next.totalSteps
      armed == IF autoPlayDeps
               THEN IF next.isPlaying /\ next.currentStep < next.totalSteps - 1
                    THEN interval(next.speed)
                    ELSE NULL
               ELSE timer
      endCheckDeps == \/ prev.currentStep # next.currentStep
                      \/ prev.totalSteps # next.totalSteps
                      \/ prev.isPlaying # next.isPlaying
  IN IF endCheckDeps /\ next.isPlaying /\ next.currentStep >= next.totalSteps - 1
     THEN runEffects(next, [next EXCEPT !.isPlaying = FALSE], armed)
     ELSE [playbackState |-> next, playIntervalRef |-> armed]

\* setPlaybackState(prev => next), the render and its effects
setPlaybackState(next) ==
  LET r == runEffects(playbackState, next, playIntervalRef)
  IN /\ playbackState' = r.playbackState
     /\ playIntervalRef' = r.playIntervalRef

genVars == <<nodeIdCounter, nodes, operations, steps, stepIndex, entry>>

Min(a, b) == IF a < b THEN a ELSE b
Max(a, b) == IF a > b THEN a ELSE b

\* App mounted: no operations, the regeneration effect took its else branch
InitPlay ==
  /\ operations = <<>>
  /\ steps = <<>>
  /\ nodes = <<>>
  /\ nodeIdCounter = resetNodeIdCounter
  /\ stepIndex = 0
  /\ entry = "first"
  /\ playbackState = [InitialPlaybackState EXCEPT !.currentStep = 0, !.totalSteps = 0,
                                                  !.isPlaying = FALSE]
  /\ playIntervalRef = NULL

\* the regeneration keeps the index the playback was at
handleOperationsChangeKeepsIndex(newOperations) ==
  LET g == generateSteps(newOperations)
  IN /\ steps' = g.steps
     /\ operations' = g.operations
     /\ nodes' = g.h.nodes
     /\ nodeIdCounter' = g.h.nodeIdCounter
     /\ stepIndex' = g.stepIndex
     /\ entry' = "reset"
     /\ setPlaybackState([playbackState EXCEPT !.totalSteps = Len(g.steps),
                                               !.isPlaying = FALSE])

\* setOperations(newOperations) and the regeneration effect for a non-empty
\* list: resetNodeIdCounter(), generateSteps, setSteps, playback reset
handleOperationsChange(newOperations) ==
  LET g == generateSteps(newOperations)
  IN /\ steps' = g.steps
     /\ operations' = g.operations
     /\ nodes' = g.h.nodes
     /\ nodeIdCounter' = g.h.nodeIdCounter
     /\ stepIndex' = g.stepIndex
     /\ entry' = "reset"
     /\ setPlaybackState([playbackState EXCEPT !.currentStep = 0,
                                               !.totalSteps = Len(g.steps),
                                               !.isPlaying = FALSE])

\* the interval callback moves two steps at a time
TickAdvancesTwo ==
  /\ playIntervalRef # NULL
  /\ setPlaybackState(IF playbackState.currentStep >= playbackState.totalSteps - 1
                      THEN [playbackState EXCEPT !.isPlaying = FALSE]
                      ELSE [playbackState EXCEPT !.currentStep = @ + 2])
  /\ UNCHANGED genVars

\* the callback of the armed interval
Tick ==
  /\ playIntervalRef # NULL
  /\ setPlaybackState(IF playbackState.currentStep >= playbackState.totalSteps - 1
                      THEN [playbackState EXCEPT !.isPlaying = FALSE]
                      ELSE [playbackState EXCEPT !.currentStep = @ + 1])
  /\ UNCHANGED genVars

\* reached through the play button or Space while not playing
handlePlay ==
  /\ ~playbackState.isPlaying
  /\ setPlaybackState(IF playbackState.currentStep >= playbackState.totalSteps - 1
                      THEN [playbackState EXCEPT !.currentStep = 0, !.isPlaying = TRUE]
                      ELSE [playbackState EXCEPT !.isPlaying = TRUE])
  /\ UNCHANGED genVars

\* reached through the pause button or Space while playing
handlePause ==
  /\ playbackState.isPlaying
  /\ setPlaybackState([playbackState EXCEPT !.isPlaying = FALSE])
  /\ UNCHANGED genVars

handlePrevStep ==
  /\ setPlaybackState([playbackState EXCEPT !.currentStep = Max(0, @ - 1),
                                            !.isPlaying = FALSE])
  /\ UNCHANGED genVars

handleNextStep ==
  /\ setPlaybackState([playbackState EXCEPT
                         !.currentStep = Min(playbackState.totalSteps - 1, @ + 1),
                         !.isPlaying = FALSE])
  /\ UNCHANGED genVars

handleReset ==
  /\ setPlaybackState([playbackState EXCEPT !.currentStep = 0, !.isPlaying = FALSE])
  /\ UNCHANGED genVars

handleSeek(step) ==
  /\ setPlaybackState([playbackState EXCEPT
                         !.currentStep = Max(0, Min(playbackState.totalSteps - 1, step)),
                         !.isPlaying = FALSE])
  /\ UNCHANGED genVars

handleSpeedChange(speed) ==
  /\ setPlaybackState([playbackState EXCEPT !.speed = speed])
  /\ UNCHANGED genVars

\* the actions of the user
UserAction ==
  \/ \E newOperations \in PlayLists : handleOperationsChange(newOperations)
  \/ handlePlay
  \/ handlePause
  \/ handlePrevStep
  \/ handleNextStep
  \/ handleReset
  \/ \E step \in (0 - SeekMargin)..(playbackState.totalSteps + SeekMargin) : handleSeek(step)
  \/ \E speed \in SPEED_OPTIONS : handleSpeedChange(speed)

NextPlay == UserAction \/ Tick

SpecPlay == InitPlay /\ [][NextPlay]_vars

\* auto-play left alone: the user acts only while playback is off
NextAutoPlay ==
  \/ Tick
  \/ ~playbackState.isPlaying /\ UserAction

SpecAutoPlay == InitPlay /\ [][NextAutoPlay]_vars /\ WF_vars(Tick)

\* ============================================================ properties
IsInsert(op) == op.type = "insert"
IsQuery(op) == op.type \in {"search", "startsWith"}

\* the words inserted so far, read off the processed operations
InsertedWords == {operations[k].word : k \in {j \in 1..Len(operations) : IsInsert(operations[j])}}

IsPrefix(p, w) == Len(p) <= Len(w) /\ SubSeq(w, 1, Len(p)) = p

IsPrefixOfInserted(p) == \E w \in InsertedWords : IsPrefix(p, w)

LastOp == operations[Len(operations)]

\* an operation was just processed: the transition appended one record
OpDone == Len(operations') = Len(operations) + 1
NewOp == operations'[Len(operations')]
\* the steps that transition appended
NewSteps == SubSeq(steps', Len(steps) + 1, Len(steps'))

HasAction(s) == "action" \in DOMAIN s

\* 0-based index of the first character of w that has no node in the trie ns
\* (Len(w) when every character is found)
FirstMissing(ns, w) ==
  IF startsWith(ns, w) THEN Len(w)
  ELSE (CHOOSE i \in 1..Len(w) : /\ ~startsWith(ns, SubSeq(w, 1, i))
                                 /\ \A j \in 1..(i - 1) : startsWith(ns, SubSeq(w, 1, j))) - 1

\* C1: after any sequence of Trie.insert calls with non-empty words, search(w)
\* is true exactly for the words that were inserted; a strict prefix of an
\* inserted word that was never inserted itself yields false.
C1_SearchExact ==
  /\ \A w \in Words : search(nodes, w) = (w \in InsertedWords)
  /\ \A k \in 1..Len(operations) :
       operations[k].type = "search" =>
         operations[k].result =
           (\E j \in 1..(k - 1) : IsInsert(operations[j]) /\ operations[j].word = operations[k].word)

\* C1 witness: a search for a never-inserted strict prefix of an inserted word
\* returned false, and the trie holds an inserted word.
C1_Witness ==
  /\ Len(operations) >= 2
  /\ LastOp.type = "search"
  /\ LastOp.result = FALSE
  /\ LastOp.word \notin InsertedWords
  /\ \E w \in InsertedWords : IsPrefix(LastOp.word, w) /\ Len(LastOp.word) < Len(w)

\* C2: after any sequence of Trie.insert calls, startsWith(p) is true exactly
\* when p is a prefix of an inserted word, whatever the isEnd flag of its node.
C2_StartsWithExact ==
  /\ \A p \in Words : startsWith(nodes, p) = IsPrefixOfInserted(p)
  /\ \A k \in 1..Len(operations) :
       operations[k].type = "startsWith" =>
         operations[k].result =
           (\E j \in 1..(k - 1) : /\ IsInsert(operations[j])
                                  /\ IsPrefix(operations[k].word, operations[j].word))

\* C2 witness: startsWith returned true for a prefix whose node is not a word end.
C2_Witness ==
  /\ Len(operations) >= 2
  /\ LastOp.type = "startsWith"
  /\ LastOp.result = TRUE
  /\ ~nodes[searchPrefix(nodes, LastOp.word)].isEnd

\* C3: a search / startsWith operation (step emission and the engine call that
\* fills in the result) leaves the trie unchanged, every snapshot it emits equals
\* the snapshot of the step before it, and a missing word or prefix gives the
\* result false.
C3_Step ==
  (OpDone /\ IsQuery(NewOp)) =>
    /\ nodes' = nodes
    /\ nodeIdCounter' = nodeIdCounter
    /\ \A k \in 1..Len(NewSteps) : NewSteps[k].trieSnapshot = steps[Len(steps)].trieSnapshot
    /\ "result" \in DOMAIN NewOp
    /\ NewOp.result \in BOOLEAN
    /\ ~IsPrefixOfInserted(NewOp.word) =>
         /\ NewOp.result = FALSE
         /\ NewSteps[Len(NewSteps)].variables.result = FALSE

C3_QueriesPure == [][C3_Step]_vars

\* C3 witness: a query for a word that is no prefix of anything inserted was
\* processed on a trie that holds nodes, and its steps were emitted.
C3_Witness ==
  /\ Len(operations) >= 2
  /\ IsQuery(LastOp)
  /\ ~IsPrefixOfInserted(LastOp.word)
  /\ LastOp.result = FALSE
  /\ Len(nodes) > 1
  /\ steps[Len(steps)].variables.result = FALSE

\* C4: inserting w right after inserting w changes nothing: same nodes, ids,
\* child order and isEnd flags as after the first insert, with search(w) true;
\* the generator's insert of w on that trie leaves it unchanged as well.
C4_Step ==
  (/\ OpDone
   /\ IsInsert(NewOp)
   /\ Len(operations) > 0
   /\ IsInsert(LastOp)
   /\ LastOp.word = NewOp.word) =>
    /\ nodes' = nodes
    /\ nodeIdCounter' = nodeIdCounter
    /\ toVisualNode(nodes') = toVisualNode(nodes)
    /\ search(nodes, NewOp.word)
    /\ search(nodes', NewOp.word)
    /\ generateInsertSteps(Heap, NewOp.word, 0).h = Heap

C4_InsertIdempotent == [][C4_Step]_vars

\* C4 witness: the same word, of the maximal length, was inserted twice in a row.
C4_Witness ==
  /\ Len(operations) >= 2
  /\ IsInsert(LastOp)
  /\ IsInsert(operations[Len(operations) - 1])
  /\ operations[Len(operations) - 1].word = LastOp.word
  /\ Len(LastOp.word) = MaxLen
  /\ Len(nodes) = MaxLen + 1

\* C5: search(w) implies startsWith(w), for every word, in every reachable trie.
C5_SearchImpliesStartsWith ==
  /\ \A w \in Words : search(nodes, w) => startsWith(nodes, w)
  /\ \A j, k \in 1..Len(operations) :
       (/\ j < k
        /\ operations[j].type = "search"
        /\ operations[j].result = TRUE
        /\ operations[k].type = "startsWith"
        /\ operations[k].word = operations[j].word) => operations[k].result = TRUE

\* C5 witness: search(w) returned true for an inserted word w, and a strict
\* prefix of w shows that the converse fails (startsWith true, search false).
C5_Witness ==
  /\ Len(operations) >= 2
  /\ LastOp.type = "search"
  /\ LastOp.result = TRUE
  /\ startsWith(nodes, LastOp.word)
  /\ \E p \in Words : /\ IsPrefix(p, LastOp.word)
                      /\ startsWith(nodes, p)
                      /\ ~search(nodes, p)

\* C6: once insert(w) has been processed, startsWith(p) holds for every
\* (non-empty) prefix p of w, in that state and in every later one.
C6_PrefixMonotone ==
  /\ \A w \in InsertedWords : \A n \in 1..Len(w) : startsWith(nodes, SubSeq(w, 1, n))
  /\ \A j, k \in 1..Len(operations) :
       (/\ j < k
        /\ IsInsert(operations[j])
        /\ operations[k].type = "startsWith"
        /\ IsPrefix(operations[k].word, operations[j].word)) => operations[k].result = TRUE

\* C6 witness: a word of the maximal length was inserted, a later operation
\* inserted a word with another first character, and the strict prefixes of
\* the first word still answer startsWith true.
C6_Witness ==
  /\ Len(operations) >= 2
  /\ IsInsert(operations[1])
  /\ Len(operations[1].word) = MaxLen
  /\ IsInsert(LastOp)
  /\ operations[1].word[1] # LastOp.word[1]
  /\ \A n \in 1..(MaxLen - 1) : startsWith(nodes, SubSeq(operations[1].word, 1, n))

\* C7: an insert of a word of length L emits exactly L + 2 steps: a begin step
\* without action tag, one step per character position (createNode when the
\* current node had no child for the character, moveToChild when it had), then
\* markEnd; whatever was inserted before.
C7_Step ==
  (OpDone /\ IsInsert(NewOp)) =>
    LET w == NewOp.word
        L == Len(w)
        ns == NewSteps
    IN /\ Len(ns) = L + 2
       /\ ~HasAction(ns[1])
       /\ ns[1].description.text = "begin insert"
       /\ \A i \in 1..L :
            /\ HasAction(ns[i + 1])
            /\ ns[i + 1].currentCharIndex = i - 1
            /\ ns[i + 1].currentChar = w[i]
            /\ ns[i + 1].action = IF startsWith(nodes, SubSeq(w, 1, i))
                                  THEN "moveToChild" ELSE "createNode"
       /\ HasAction(ns[L + 2])
       /\ ns[L + 2].action = "markEnd"

C7_InsertStepCount == [][C7_Step]_vars

\* C7 witness: an insert whose every character node already existed was
\* processed: its character steps are all moveToChild, followed by markEnd.
C7_Witness ==
  /\ Len(operations) >= 2
  /\ IsInsert(LastOp)
  /\ Len(LastOp.word) = MaxLen
  /\ Len(steps) >= MaxLen + 3
  /\ \A i \in 1..MaxLen : /\ HasAction(steps[Len(steps) - i])
                          /\ steps[Len(steps) - i].action = "moveToChild"
  /\ steps[Len(steps)].action = "markEnd"
  /\ ~HasAction(steps[Len(steps) - MaxLen - 1])

\* C8: a search or startsWith of a word of length L whose every character is
\* found emits exactly L + 2 steps: begin, L moveToChild steps, one terminal step.
C8_Step ==
  (OpDone /\ IsQuery(NewOp) /\ startsWith(nodes, NewOp.word)) =>
    LET L == Len(NewOp.word)
        ns == NewSteps
    IN /\ Len(ns) = L + 2
       /\ ~HasAction(ns[1])
       /\ \A i \in 1..L : HasAction(ns[i + 1]) /\ ns[i + 1].action = "moveToChild"
       /\ HasAction(ns[L + 2])
       /\ ns[L + 2].action = IF NewOp.type = "search" THEN "checkEnd" ELSE "returnResult"
       /\ "result" \in DOMAIN ns[L + 2].variables

C8_QueryStepCount == [][C8_Step]_vars

\* C8 witness: a startsWith of a word of the maximal length with every
\* character found was processed and ended with its terminal step.
C8_Witness ==
  /\ Len(operations) >= 2
  /\ LastOp.type = "startsWith"
  /\ Len(LastOp.word) = MaxLen
  /\ LastOp.result = TRUE
  /\ steps[Len(steps)].description.text = "prefix exists, return true"
  /\ steps[Len(steps) - 1].action = "moveToChild"

\* C9 as stated: a search or startsWith that short-circuits at the first
\* missing character, of 0-based index i, emits i + 2 steps.
C9_Step_Original ==
  (OpDone /\ IsQuery(NewOp) /\ ~startsWith(nodes, NewOp.word)) =>
    Len(NewSteps) = FirstMissing(nodes, NewOp.word) + 2

C9_ShortCircuitCount_Original == [][C9_Step_Original]_vars

\* C9 amended: a search or startsWith that short-circuits at the first missing
\* character, of 0-based index i, emits i + 3 steps: begin, i moveToChild steps,
\* the not-found step and the return-false step.
C9_Step ==
  (OpDone /\ IsQuery(NewOp) /\ ~startsWith(nodes, NewOp.word)) =>
    LET i == FirstMissing(nodes, NewOp.word)
        ns == NewSteps
    IN /\ Len(ns) = i + 3
       /\ ~HasAction(ns[1])
       /\ \A j \in 1..i : ns[j + 1].action = "moveToChild"
       /\ ns[i + 2].currentCharIndex = i
       /\ ns[i + 2].variables.found = FALSE
       /\ ns[i + 3].variables.result = FALSE

C9_ShortCircuitCount == [][C9_Step]_vars

\* C9 witness: a query missed at a character after the first one (i >= 1) and
\* ended with the return-false step.
C9_Witness ==
  /\ Len(operations) >= 2
  /\ IsQuery(LastOp)
  /\ ~startsWith(nodes, LastOp.word)
  /\ FirstMissing(nodes, LastOp.word) >= 1
  /\ steps[Len(steps)].variables.result = FALSE
  /\ steps[Len(steps) - 1].variables.found = FALSE

\* C10 as stated: the sequence returned for a list of a single insert of a
\* word of length L has exactly L + 2 steps.
C10_SingleInsertTotal_Original ==
  (Len(operations) = 1 /\ IsInsert(operations[1])) =>
    Len(steps) = Len(operations[1].word) + 2

\* C10 amended: the sequence returned for a list of a single insert of a word
\* of length L has exactly L + 3 steps: the initialization step followed by the
\* L + 2 steps of the insert.
C10_SingleInsertTotal ==
  (Len(operations) = 1 /\ IsInsert(operations[1])) =>
    /\ Len(steps) = Len(operations[1].word) + 3
    /\ steps[1].description.text = "initialize trie, create root"
    /\ steps[2].description.text = "begin insert"
    /\ steps[Len(steps)].action = "markEnd"
    /\ stepIndex = Len(operations[1].word) + 3

\* C10 witness: the list of one insert of a word of the maximal length was processed.
C10_Witness ==
  /\ Len(operations) = 1
  /\ IsInsert(operations[1])
  /\ Len(operations[1].word) = MaxLen
  /\ Len(nodes) = MaxLen + 1

\* C11: the steps returned by generateSteps carry the stepIndex values
\* 0, 1, ..., N-1 in sequence order: the step at position k has stepIndex k,
\* not reset between operations, also across operations that short-circuit.
C11_IndexContiguous ==
  /\ \A k \in 1..Len(steps) : steps[k].stepIndex = k - 1
  /\ stepIndex = Len(steps)

\* C11 witness: a query that short-circuited was followed by an insert of a
\* word of the maximal length, whose steps continue the numbering.
C11_Witness ==
  /\ Len(operations) = 2
  /\ IsQuery(operations[1])
  /\ operations[1].result = FALSE
  /\ IsInsert(operations[2])
  /\ Len(operations[2].word) = MaxLen
  /\ Len(steps) = MaxLen + 6
  /\ steps[Len(steps)].stepIndex = MaxLen + 5

\* ------------------------------------------------------------ reading snapshots
RECURSIVE SumSeq(_)
SumSeq(q) == IF q = <<>> THEN 0 ELSE q[1] + SumSeq(Tail(q))

\* number of nodes of a VisualNode tree
RECURSIVE VisualNodeCount(_)
VisualNodeCount(v) ==
  1 + SumSeq([j \in 1..Len(v.children) |-> VisualNodeCount(v.children[j])])

\* C12: across the whole step sequence the number of nodes in trieSnapshot
\* never decreases from one step to the next.
C12_SnapshotGrowth ==
  \A k \in 1..(Len(steps) - 1) :
    VisualNodeCount(steps[k].trieSnapshot) <= VisualNodeCount(steps[k + 1].trieSnapshot)

\* C12 witness: a word was inserted next to an existing sibling branch: the
\* snapshots grew from the root-only tree to a tree with two branches.
C12_Witness ==
  /\ Len(operations) = 2
  /\ IsInsert(operations[1])
  /\ IsInsert(operations[2])
  /\ operations[1].word[1] # operations[2].word[1]
  /\ VisualNodeCount(steps[1].trieSnapshot) = 1
  /\ VisualNodeCount(steps[Len(steps)].trieSnapshot) = Len(nodes)
  /\ Len(nodes) >= MaxLen + 2

\* C13: a snapshot is an independent deep copy: once a step has been appended,
\* no later node creation or isEnd marking changes it.  The steps of earlier
\* operations are the same after an operation as before it, and the begin step
\* of an insert still shows the tree as it was before that insert's mutations.
C13_Step ==
  OpDone =>
    /\ Len(steps') > Len(steps)
    /\ \A k \in 1..Len(steps) : steps'[k] = steps[k]
    /\ NewSteps[1].trieSnapshot = toVisualNode(nodes)
    /\ NewSteps[1].trieSnapshot = steps[Len(steps)].trieSnapshot
    /\ VisualNodeCount(NewSteps[1].trieSnapshot) = Len(nodes)

C13_SnapshotsIndependent == [][C13_Step]_vars

\* C13 witness: a second insert created nodes and marked an end after the
\* steps of a first insert were emitted; the first insert's last snapshot and
\* the second insert's begin snapshot still show the smaller tree.
C13_Witness ==
  /\ Len(operations) = 2
  /\ IsInsert(operations[1])
  /\ IsInsert(operations[2])
  /\ LET last1 == Len(operations[1].word) + 3
     IN /\ VisualNodeCount(steps[last1].trieSnapshot) = Len(operations[1].word) + 1
        /\ VisualNodeCount(steps[last1].trieSnapshot) < Len(nodes)
        /\ steps[last1 + 1].trieSnapshot = steps[last1].trieSnapshot
        /\ steps[Len(steps)].trieSnapshot = toVisualNode(nodes)
        /\ steps[Len(steps)].trieSnapshot # steps[last1].trieSnapshot

\* the node of a VisualNode tree v reached by the characters w[i..Len(w)]
RECURSIVE VisualAt(_, _, _)
VisualAt(v, w, i) ==
  IF i > Len(w)
  THEN v
  ELSE VisualAt(v.children[CHOOSE j \in 1..Len(v.children) : v.children[j].char = w[i]],
                w, i + 1)

\* The live trie right after the step for the i-th character of an insert of w
\* into h: the nodes of w[1..i] exist (Trie.insert creates exactly them) and no
\* isEnd flag has changed yet.
LiveAfterChars(h, w, i) ==
  LET p == SubSeq(w, 1, i)
      h1 == insert(h, p)
      n == searchPrefix(h1.nodes, p)
      was == searchPrefix(h.nodes, p)
  IN [h1 EXCEPT !.nodes[n].isEnd = IF was = NULL THEN FALSE ELSE h.nodes[was].isEnd]

\* C14: each step's trieSnapshot is the projection of the entire live trie
\* right after that step's action: a createNode step already contains the new
\* node, the markEnd step already shows isEnd on the terminal node, the steps
\* before it in the same insert do not (unless the word was inserted before).
C14_Step ==
  OpDone =>
    LET w == NewOp.word
        L == Len(w)
        ns == NewSteps
    IN /\ ns[1].trieSnapshot = toVisualNode(nodes)
       /\ ns[Len(ns)].trieSnapshot = toVisualNode(nodes')
       /\ IsQuery(NewOp) => \A k \in 1..Len(ns) : ns[k].trieSnapshot = toVisualNode(nodes')
       /\ IsInsert(NewOp) =>
            /\ nodes' = insert(Heap, w).nodes
            /\ \A i \in 1..L :
                 /\ ns[i + 1].trieSnapshot = toVisualNode(LiveAfterChars(Heap, w, i).nodes)
                 /\ ns[i + 1].action = "createNode" =>
                      /\ VisualNodeCount(ns[i + 1].trieSnapshot)
                           = VisualNodeCount(ns[i].trieSnapshot) + 1
                      /\ VisualAt(ns[i + 1].trieSnapshot, SubSeq(w, 1, i), 1).id
                           = ns[i + 1].highlightedNodes[i + 1]
            /\ VisualAt(ns[L + 1].trieSnapshot, w, 1).isEnd = search(nodes, w)
            /\ VisualAt(ns[L + 2].trieSnapshot, w, 1).isEnd = TRUE

C14_SnapshotIsLiveTrie == [][C14_Step]_vars

\* C14 witness: an insert created the node of its last character and then
\* marked it: the createNode snapshot holds the node unmarked, the markEnd
\* snapshot holds it marked.
C14_Witness ==
  /\ Len(operations) >= 1
  /\ IsInsert(LastOp)
  /\ Len(LastOp.word) = MaxLen
  /\ steps[Len(steps) - 1].action = "createNode"
  /\ VisualNodeCount(steps[Len(steps) - 1].trieSnapshot) = Len(nodes)
  /\ VisualAt(steps[Len(steps) - 1].trieSnapshot, LastOp.word, 1).isEnd = FALSE
  /\ VisualAt(steps[Len(steps)].trieSnapshot, LastOp.word, 1).isEnd = TRUE

\* the operation list of scenario 4 of the specification's testable properties
Scenario4 ==
  << [type |-> "insert", word |-> <<"a">>],
     [type |-> "insert", word |-> <<"a", "b">>],
     [type |-> "search", word |-> <<"a">>],
     [type |-> "search", word |-> <<"a", "b">>],
     [type |-> "search", word |-> <<"a", "b", "c">>] >>

\* the operations of scenario 4 as generateSteps leaves them
Scenario4Done == generateSteps(Scenario4).operations

\* C15: each search / startsWith operation's result is the answer against the
\* trie built from exactly the inserts that precede it in the list (later
\* inserts do not affect it), and an insert's result is left unset; scenario 4
\* records [unset, unset, true, true, false].
C15_ResultsInOrder ==
  /\ \A k \in 1..Len(operations) :
       LET op == operations[k]
           before == {operations[j].word : j \in {i \in 1..(k - 1) : IsInsert(operations[i])}}
       IN /\ IsInsert(op) => "result" \notin DOMAIN op
          /\ op.type = "search" => op.result = (op.word \in before)
          /\ op.type = "startsWith" => op.result = (\E w \in before : IsPrefix(op.word, w))
  /\ "result" \notin DOMAIN Scenario4Done[1]
  /\ "result" \notin DOMAIN Scenario4Done[2]
  /\ Scenario4Done[3].result = TRUE
  /\ Scenario4Done[4].result = TRUE
  /\ Scenario4Done[5].result = FALSE

\* C15 witness: a search for w was answered false and w was inserted after it:
\* the recorded result stays false although the trie now holds w, and the
\* insert carries no result.
C15_Witness ==
  /\ Len(operations) = 2
  /\ operations[1].type = "search"
  /\ operations[1].result = FALSE
  /\ IsInsert(operations[2])
  /\ operations[2].word = operations[1].word
  /\ "result" \notin DOMAIN operations[2]
  /\ search(nodes, operations[1].word)

\* C16: for every search and startsWith operation, the boolean written to
\* Operation.result by the engine call made after the steps were emitted equals
\* variables.result of the operation's final step (the checkEnd, return-true
\* or return-false step).
C16_Step ==
  (OpDone /\ IsQuery(NewOp)) =>
    LET last == NewSteps[Len(NewSteps)]
    IN /\ HasAction(last)
       /\ last.action \in {"checkEnd", "returnResult"}
       /\ "result" \in DOMAIN last.variables
       /\ last.variables.result = NewOp.result

C16_ResultMatchesFinalStep == [][C16_Step]_vars

\* C16 witness: a search walked its whole word onto a node that is not the end
\* of a word: the final step is the checkEnd step and shows false, and false
\* was recorded.
C16_Witness ==
  /\ Len(operations) >= 1
  /\ LastOp.type = "search"
  /\ LastOp.result = FALSE
  /\ steps[Len(steps)].action = "checkEnd"
  /\ steps[Len(steps)].variables.result = FALSE
  /\ startsWith(nodes, LastOp.word)

\* the steps of ns that are about one character of the operand (the begin step
\* carries the character index -1)
CharSteps(ns) ==
  {j \in 1..Len(ns) : "currentCharIndex" \in DOMAIN ns[j] /\ ns[j].currentCharIndex >= 0}

\* the steps of ns that report a missing character
MissSteps(ns) ==
  {j \in 1..Len(ns) : "found" \in DOMAIN ns[j].variables /\ ns[j].variables.found = FALSE}

\* C17: in a search or startsWith, at the first character whose child is absent
\* the generator emits one character-not-found step, immediately followed by
\* one terminal return-false step, and no further step for that operation (none
\* for a remaining character); an insert never short-circuits: it emits a step
\* for every character of its word and ends with the mark-end step.
C17_Step ==
  OpDone =>
    LET w == NewOp.word
        ns == NewSteps
        i == FirstMissing(nodes, w)
    IN /\ (IsQuery(NewOp) /\ i < Len(w)) =>
            /\ MissSteps(ns) = {Len(ns) - 1}
            /\ ns[Len(ns) - 1].currentCharIndex = i
            /\ ns[Len(ns) - 1].currentChar = w[i + 1]
            /\ ns[Len(ns)].action = "returnResult"
            /\ ns[Len(ns)].variables.result = FALSE
            /\ "currentCharIndex" \notin DOMAIN ns[Len(ns)]
            /\ \A j \in CharSteps(ns) : ns[j].currentCharIndex <= i
            /\ {ns[j].currentCharIndex : j \in CharSteps(ns)} = 0..i
       /\ (IsQuery(NewOp) /\ i = Len(w)) => MissSteps(ns) = {}
       /\ IsInsert(NewOp) =>
            /\ {ns[j].currentCharIndex : j \in CharSteps(ns)} = 0..(Len(w) - 1)
            /\ ns[Len(ns)].action = "markEnd"
            /\ \A j \in 1..Len(ns) : "result" \notin DOMAIN ns[j].variables

C17_ShortCircuitOnFirstMiss == [][C17_Step]_vars

\* C17 witness: a prefix query missed at its first character with a character
\* left over: its steps are begin, not-found, return-false.
C17_Witness ==
  /\ Len(operations) >= 1
  /\ LastOp.type = "startsWith"
  /\ Len(LastOp.word) = MaxLen
  /\ LastOp.result = FALSE
  /\ FirstMissing(nodes, LastOp.word) = 0
  /\ steps[Len(steps) - 1].currentCharIndex = 0
  /\ steps[Len(steps) - 1].variables.found = FALSE
  /\ steps[Len(steps)].variables.result = FALSE
  /\ ~HasAction(steps[Len(steps) - 2])

\* the operation list as the caller hands it over: no result written yet
Unprocessed(ops) == [k \in 1..Len(ops) |-> [type |-> ops[k].type, word |-> ops[k].word]]

\* C18: generation is deterministic and carries no state between runs: a run
\* whose identifier counter was reset, whatever lists were generated before it,
\* yields exactly the step sequence and the Operation.result values that
\* generateSteps yields for the same list from scratch, step by step, node ids
\* included, with the root as identifier 0.
C18_Deterministic ==
  entry \in {"first", "reset"} =>
    LET g == generateSteps(Unprocessed(operations))
    IN /\ steps = g.steps
       /\ operations = g.operations
       /\ stepIndex = g.stepIndex
       /\ nodes = g.h.nodes
       /\ nodeIdCounter = g.h.nodeIdCounter
       /\ \A k \in 1..Len(steps) : steps[k].trieSnapshot.id = generateNodeId(0)

\* C18 witness: a run started by the regeneration effect, after an earlier run,
\* has processed a full list that created nodes and ended with a query.
C18_Witness ==
  /\ entry = "reset"
  /\ Len(operations) = MaxOps
  /\ Len(nodes) >= 3
  /\ IsQuery(LastOp)
  /\ LastOp.result = TRUE

\* the identifiers that occur in a VisualNode tree
RECURSIVE VisualIds(_)
VisualIds(v) == {v.id} \cup UNION {VisualIds(v.children[j]) : j \in 1..Len(v.children)}

\* C19: within one generation run node identifiers are never reused and are
\* assigned in strict creation order starting at 0: the root is node 0, the
\* k-th node created after it is node k, and the ids in any snapshot are
\* pairwise distinct.
C19_IdsInCreationOrder ==
  /\ nodes[root].id = generateNodeId(0)
  /\ \A k \in 1..Len(nodes) : nodes[k].id = generateNodeId(k - 1)
  /\ \A j, k \in 1..Len(nodes) : j # k => nodes[j].id # nodes[k].id
  /\ nodeIdCounter = Len(nodes)
  /\ \A k \in 1..Len(steps) :
       Cardinality(VisualIds(steps[k].trieSnapshot)) = VisualNodeCount(steps[k].trieSnapshot)

\* C19 witness: two inserts created nodes on two branches; the last snapshot
\* shows at least three nodes.
C19_Witness ==
  /\ Len(operations) = 2
  /\ IsInsert(operations[1])
  /\ IsInsert(operations[2])
  /\ operations[1].word[1] # operations[2].word[1]
  /\ Len(nodes) >= 3
  /\ VisualNodeCount(steps[Len(steps)].trieSnapshot) = Len(nodes)

\* C20 as stated: a run handed its list while the previous tree's identifier
\* counter was not reset fails fast and produces no step sequence.
C20_FailsFast_Original ==
  entry = "unreset" => steps = <<>>

\* C20: a run handed its list while the previous tree's identifier counter was
\* not reset does not fail: the Trie constructor resets the counter itself, and
\* the run produces the step sequence of a reset run, the root being node 0.
C20_UnresetRunStartsAtZero ==
  entry = "unreset" =>
    /\ Len(steps) >= 1
    /\ steps[1] = InitialStep(TrieConstructor)
    /\ nodes[root].id = generateNodeId(resetNodeIdCounter)
    /\ steps = generateSteps(Unprocessed(operations)).steps

\* C20 witness: a run entered without a reset has processed an insert that
\* created a node.
C20_Witness ==
  /\ entry = "unreset"
  /\ Len(operations) >= 1
  /\ IsInsert(LastOp)
  /\ Len(nodes) >= 2
  /\ Len(steps) >= 4

IsInitStep(s) == s.description.text = "initialize trie, create root"

\* C21: every generated sequence starts with exactly one initialization step
\* (stepIndex 0) emitted before any operation's steps; it highlights only the
\* root, its snapshot is the root-only tree (no children, isEnd false), and no
\* other initialization step occurs later in the sequence.
C21_SingleInitStep ==
  /\ Len(steps) >= 1
  /\ IsInitStep(steps[1])
  /\ steps[1].stepIndex = 0
  /\ ~HasAction(steps[1])
  /\ steps[1].highlightedNodes = <<generateNodeId(0)>>
  /\ steps[1].trieSnapshot.id = generateNodeId(0)
  /\ steps[1].trieSnapshot.char = "root"
  /\ steps[1].trieSnapshot.children = <<>>
  /\ steps[1].trieSnapshot.isEnd = FALSE
  /\ \A k \in 2..Len(steps) : ~IsInitStep(steps[k]) /\ steps[k].stepIndex # 0

\* C21 witness: a full operation list was processed and the trie has grown,
\* the last snapshot showing children under the root.
C21_Witness ==
  /\ Len(operations) = MaxOps
  /\ Len(steps) > 4
  /\ steps[Len(steps)].trieSnapshot.children # <<>>
  /\ steps[1].trieSnapshot.children = <<>>

\* the characters read from the root down to node k of the trie ns
RECURSIVE PathOf(_, _)
PathOf(ns, k) == IF k = root THEN <<>> ELSE Append(PathOf(ns, ns[k].parent), ns[k].char)

\* the non-empty prefixes of the words of W
Prefixes(W) == UNION {{SubSeq(w, 1, n) : n \in 1..Len(w)} : w \in W}

\* the edges parent -> child of the trie ns that end in node k
EdgesInto(ns, k) ==
  {e \in UNION {{<<p, j>> : j \in 1..Len(ns[p].children)} : p \in 1..Len(ns)} :
     ns[e[1]].children[e[2]].value = k}

AppWord == <<"a", "p", "p">>
AppleWord == <<"a", "p", "p", "l", "e">>

\* insert("app"), insert("apple") on a fresh Trie, and the trie generateSteps
\* builds for the same two inserts
AppAppleTrie == insert(insert(TrieConstructor, AppWord), AppleWord)
AppAppleGenerated ==
  generateSteps(<< [type |-> "insert", word |-> AppWord],
                   [type |-> "insert", word |-> AppleWord] >>).h

\* C22: in every reachable trie state the non-root nodes correspond one-to-one
\* to the distinct non-empty prefixes of the inserted words: each node is
\* reached from the root by exactly one character path, that path is a prefix
\* of an inserted word, no two nodes share a path, and the node count is 1 +
\* the number of distinct non-empty prefixes (6 nodes after insert("app"),
\* insert("apple")).
C22_NodesArePrefixes ==
  /\ {PathOf(nodes, k) : k \in 2..Len(nodes)} = Prefixes(InsertedWords)
  /\ \A j, k \in 2..Len(nodes) : j # k => PathOf(nodes, j) # PathOf(nodes, k)
  /\ Len(nodes) = 1 + Cardinality(Prefixes(InsertedWords))
  /\ EdgesInto(nodes, root) = {}
  /\ \A k \in 2..Len(nodes) :
       /\ Cardinality(EdgesInto(nodes, k)) = 1
       /\ \A e \in EdgesInto(nodes, k) :
            /\ e[1] = nodes[k].parent
            /\ nodes[e[1]].children[e[2]].key = nodes[k].char
  /\ Len(AppAppleTrie.nodes) = 6
  /\ Len(AppAppleGenerated.nodes) = 6

\* C22 witness: two inserted words share their first character and differ
\* afterwards: the shared prefix has one node, the trie has four.
C22_Witness ==
  /\ Len(operations) = 2
  /\ IsInsert(operations[1])
  /\ IsInsert(operations[2])
  /\ Len(operations[1].word) = 2
  /\ Len(operations[2].word) = 2
  /\ operations[1].word[1] = operations[2].word[1]
  /\ operations[1].word[2] # operations[2].word[2]
  /\ Len(nodes) = 4

\* for every node of a VisualNode tree, the pair of its id and the sequence of
\* its children's ids, left to right
RECURSIVE VisualChildLists(_)
VisualChildLists(v) ==
  {<<v.id, [j \in 1..Len(v.children) |-> v.children[j].id]>>}
    \cup UNION {VisualChildLists(v.children[j]) : j \in 1..Len(v.children)}

\* the same pairs read off the live trie ns
LiveChildLists(ns) ==
  {<<ns[k].id, [j \in 1..Len(ns[k].children) |-> ns[ns[k].children[j].value].id]>> :
     k \in 1..Len(ns)}

\* C23: every snapshot lists each node's children in the order in which those
\* children were created in the live trie (identifiers count creations, so the
\* counters of a child list increase left to right), the last snapshot has the
\* live trie's child order, and from one snapshot to the next every child list
\* is extended at its end only, so two siblings keep their relative order in
\* every snapshot that contains both.
\* (stated for the steps a transition appends, from the last step before them)
C23_Step ==
  LET from == IF OpDone THEN Len(steps) ELSE 1
  IN /\ \A k \in from..Len(steps') :
          \A p \in VisualChildLists(steps'[k].trieSnapshot) :
            \A i, j \in 1..Len(p[2]) : i < j => p[2][i][2] < p[2][j][2]
     /\ VisualChildLists(steps'[Len(steps')].trieSnapshot) = LiveChildLists(nodes')
     /\ \A k \in from..(Len(steps') - 1) :
          \A p \in VisualChildLists(steps'[k].trieSnapshot) :
            \E q \in VisualChildLists(steps'[k + 1].trieSnapshot) :
              p[1] = q[1] /\ IsPrefix(p[2], q[2])

C23_ChildOrderStable == [][C23_Step]_vars

\* C23 witness: the root got a second child after its first; an earlier
\* snapshot shows the root with one child, the last one with both.
C23_Witness ==
  /\ Len(steps[Len(steps)].trieSnapshot.children) = 2
  /\ \E k \in 1..Len(steps) : Len(steps[k].trieSnapshot.children) = 1

\* C26: per operation the action tags follow Start -> (move | create)* ->
\* Terminal: the begin step (and the initialization step) carry no action tag,
\* every other step carries one; after the begin step comes a run of
\* moveToChild / createNode steps (createNode in an insert only) and then the
\* terminal part: markEnd for an insert, checkEnd for a search that consumed
\* all characters, a returnResult with result true for a startsWith that
\* consumed all characters whatever the terminal node's isEnd, and on a miss
\* the not-found and return-false steps, both tagged returnResult.
C26_Step ==
  /\ ~HasAction(steps'[1])
  /\ OpDone =>
       LET ns == NewSteps
           w == NewOp.word
           n == Len(ns)
           missed == IsQuery(NewOp) /\ ~startsWith(nodes, w)
           walk == IF missed THEN 2..(n - 2) ELSE 2..(n - 1)
       IN /\ n >= 2
          /\ ~HasAction(ns[1])
          /\ \A j \in 2..n : HasAction(ns[j])
          /\ \A j \in walk :
               ns[j].action \in (IF IsInsert(NewOp) THEN {"moveToChild", "createNode"}
                                 ELSE {"moveToChild"})
          /\ IsInsert(NewOp) => ns[n].action = "markEnd"
          /\ (NewOp.type = "search" /\ ~missed) => ns[n].action = "checkEnd"
          /\ (NewOp.type = "startsWith" /\ ~missed) =>
               /\ ns[n].action = "returnResult"
               /\ ns[n].variables.result = TRUE
          /\ missed =>
               /\ ns[n - 1].action = "returnResult"
               /\ ns[n].action = "returnResult"
               /\ ns[n].variables.result = FALSE

C26_ActionTags == [][C26_Step]_vars

\* C26 witness: a startsWith consumed its whole prefix and stopped on a node
\* that is not the end of a word; its last step is a returnResult showing true.
C26_Witness ==
  /\ Len(operations) >= 2
  /\ LastOp.type = "startsWith"
  /\ ~search(nodes, LastOp.word)
  /\ steps[Len(steps)].action = "returnResult"
  /\ steps[Len(steps)].variables.result = TRUE
  /\ steps[Len(steps) - 1].action = "moveToChild"

\* hl is a chain of the VisualNode tree v that starts at its root: every next
\* id is a child of the one before it, and no id occurs twice
IsRootChain(v, hl) ==
  /\ Len(hl) >= 1
  /\ hl[1] = v.id
  /\ \A m \in 1..(Len(hl) - 1) :
       \E p \in VisualChildLists(v) :
         p[1] = hl[m] /\ \E j \in 1..Len(p[2]) : p[2][j] = hl[m + 1]
  /\ \A a, b \in 1..Len(hl) : a # b => hl[a] # hl[b]

\* the id of the node of the trie ns that the characters of path lead to
IdAtPath(ns, path) == ns[CHOOSE k \in 1..Len(ns) : PathOf(ns, k) = path].id

\* C27: in every operation the step for character position i highlights exactly
\* the path walked so far: i+2 node ids forming the root-to-node chain (root
\* first, each next id a child of the previous one in that step's snapshot,
\* ending at the node just created or entered), no node repeated; a not-found
\* step highlights only the i+1 nodes reached before the miss, and the terminal
\* step highlights the full path walked.
C27_Step ==
  OpDone =>
    LET ns == NewSteps
        w == NewOp.word
        n == Len(ns)
        reached == IF IsInsert(NewOp) THEN Len(w) ELSE FirstMissing(nodes, w)
    IN /\ \A j \in 1..n : IsRootChain(ns[j].trieSnapshot, ns[j].highlightedNodes)
       /\ \A j \in CharSteps(ns) :
            LET i == ns[j].currentCharIndex
                hl == ns[j].highlightedNodes
            IN IF j \in MissSteps(ns)
               THEN /\ Len(hl) = i + 1
                    /\ hl[Len(hl)] = IdAtPath(nodes', SubSeq(w, 1, i))
               ELSE /\ Len(hl) = i + 2
                    /\ hl[Len(hl)] = IdAtPath(nodes', SubSeq(w, 1, i + 1))
       /\ Len(ns[n].highlightedNodes) = reached + 1
       /\ ns[n].highlightedNodes[reached + 1] = IdAtPath(nodes', SubSeq(w, 1, reached))

C27_HighlightIsPath == [][C27_Step]_vars

\* C27 witness: an insert entered an existing child and then created a node:
\* its move step highlights two nodes, its last step the three of the path.
C27_Witness ==
  /\ Len(operations) = 2
  /\ IsInsert(LastOp)
  /\ Len(LastOp.word) = 2
  /\ steps[Len(steps) - 2].action = "moveToChild"
  /\ Len(steps[Len(steps) - 2].highlightedNodes) = 2
  /\ steps[Len(steps) - 1].action = "createNode"
  /\ Len(steps[Len(steps)].highlightedNodes) = 3

IsCreateStep(s) == HasAction(s) /\ s.action = "createNode"

\* C30: within a single insert the per-character steps are a (possibly empty)
\* run of moveToChild steps followed by a (possibly empty) run of createNode
\* steps: once a createNode step has occurred every later character step of
\* that insert is createNode too; and the snapshot's node count grows by
\* exactly one at each createNode step and at no other step of the sequence.
C30_Step ==
  /\ \A k \in 2..Len(steps') :
       VisualNodeCount(steps'[k].trieSnapshot) =
         VisualNodeCount(steps'[k - 1].trieSnapshot) + (IF IsCreateStep(steps'[k]) THEN 1 ELSE 0)
  /\ (OpDone /\ IsInsert(NewOp)) =>
       LET ns == NewSteps
       IN /\ \A j \in CharSteps(ns) : ns[j].action \in {"moveToChild", "createNode"}
          /\ \A a, b \in CharSteps(ns) :
               (a < b /\ ns[a].action = "createNode") => ns[b].action = "createNode"
  /\ (OpDone /\ IsQuery(NewOp)) => \A j \in 1..Len(NewSteps) : ~IsCreateStep(NewSteps[j])

C30_MoveThenCreate == [][C30_Step]_vars

\* C30 witness: an insert moved through an existing child and then created a
\* node, the snapshot growing by one node at the createNode step only.
C30_Witness ==
  /\ Len(operations) >= 2
  /\ IsInsert(LastOp)
  /\ Len(LastOp.word) = 2
  /\ steps[Len(steps) - 2].action = "moveToChild"
  /\ IsCreateStep(steps[Len(steps) - 1])
  /\ VisualNodeCount(steps[Len(steps) - 1].trieSnapshot) =
       VisualNodeCount(steps[Len(steps) - 2].trieSnapshot) + 1
  /\ VisualNodeCount(steps[Len(steps)].trieSnapshot) =
       VisualNodeCount(steps[Len(steps) - 1].trieSnapshot)

\* C28: after any sequence of playback actions (play, pause, previous, next,
\* reset, seek to any integer, speed change, timer tick, operation-list
\* change), the keyboard shortcuts with no steps loaded (totalSteps = 0)
\* included, currentStep is never negative and never exceeds
\* max(0, totalSteps - 1).
C28_IndexInRange ==
  /\ playbackState.currentStep >= 0
  /\ playbackState.currentStep <= Max(0, playbackState.totalSteps - 1)

\* C24: when auto-play is on and no user action intervenes, the current index
\* advances by one per timer tick and never passes the last index, and
\* playback eventually turns itself off (isPlaying false) with the index at
\* the last step.
C24_AutoPlayRunsToEnd ==
  /\ [][playbackState.isPlaying =>
          /\ playbackState'.currentStep = playbackState.currentStep + 1
          /\ playbackState'.currentStep <= playbackState.totalSteps - 1
          /\ playbackState'.totalSteps = playbackState.totalSteps
          /\ playbackState'.isPlaying =
               (playbackState'.currentStep < playbackState.totalSteps - 1)]_vars
  /\ (playbackState.isPlaying ~>
        (/\ ~playbackState.isPlaying
         /\ playbackState.currentStep = playbackState.totalSteps - 1))

\* C24 witness: auto-play is on, ticks have moved the index off the first step
\* and one more tick reaches the last step.
C24_Witness ==
  /\ playbackState.isPlaying
  /\ playIntervalRef # NULL
  /\ playbackState.currentStep > 0
  /\ playbackState.currentStep = playbackState.totalSteps - 2

\* C25: whenever the operation list changes, the previous step sequence is
\* replaced wholesale by the sequence generated from the new list and playback
\* is reset: currentStep = 0, isPlaying = false, totalSteps = the length of the
\* new sequence (0 and an empty sequence when the list is empty), speed
\* unchanged.
C25_Step ==
  LET ops == Unprocessed(operations')
      changed == \/ operations' # operations
                 \/ steps' # steps
                 \/ ops # <<>> /\ handleOperationsChange(ops)
  IN /\ changed =>
          /\ steps' = generateSteps(ops).steps
          /\ operations' = generateSteps(ops).operations
          /\ playbackState'.currentStep = 0
          /\ playbackState'.isPlaying = FALSE
          /\ playbackState'.totalSteps = Len(steps')
          /\ playbackState'.speed = playbackState.speed
          /\ playIntervalRef' = NULL
     /\ playbackState.totalSteps = Len(steps)
     /\ operations = <<>> => steps = <<>> /\ playbackState.totalSteps = 0

C25_RegenerationResetsPlayback == [][C25_Step]_vars

\* C25 witness: a list was loaded after the speed had been changed: the steps
\* are those of the list, playback is at step 0 and off, the speed is kept.
C25_Witness ==
  /\ Len(operations) = MaxPlayOps
  /\ steps = generateSteps(Unprocessed(operations)).steps
  /\ playbackState.currentStep = 0
  /\ ~playbackState.isPlaying
  /\ playbackState.totalSteps = Len(steps)
  /\ playbackState.totalSteps > 0
  /\ playbackState.speed # SpeedUnit

\* the transition is one of the handlers that stop playback
StopAction ==
  \/ handlePause
  \/ handlePrevStep
  \/ handleNextStep
  \/ handleReset
  \/ \E step \in (0 - SeekMargin)..(playbackState.totalSteps + SeekMargin) : handleSeek(step)
  \/ operations' # operations

\* C29: under any interleaving of timer ticks with user actions, once playback
\* has been stopped (pause, previous, next, reset, seek, operation-list change)
\* no timer tick advances currentStep until play is requested again: stopping
\* clears the interval, an interval is armed only while isPlaying holds, and a
\* tick happens only then; a speed change while playing restarts the timer
\* with the new interval without changing currentStep or isPlaying.
C29_Step ==
  /\ playIntervalRef # NULL => playbackState.isPlaying
  /\ StopAction => ~playbackState'.isPlaying /\ playIntervalRef' = NULL
  /\ Tick => playbackState.isPlaying
  /\ playbackState'.speed # playbackState.speed =>
       /\ playbackState'.currentStep = playbackState.currentStep
       /\ playbackState'.isPlaying = playbackState.isPlaying
       /\ playbackState.isPlaying => playIntervalRef' = interval(playbackState'.speed)

====
